---- MODULE Spec2Model ----
(***************************************************************************)
(* A model of three parts of innoextract: the Adler-32 checksum            *)
(* (crypto/adler32.cpp), the data_entry decoder (setup/data.cpp) and the   *)
(* PE resource locator (loader/exereader.cpp).                             *)
(*                                                                         *)
(* TLC's integers are 32-bit signed, so the C++ values of 32 and 64 bits   *)
(* are kept as sequences of 16-bit limbs, least significant limb first:    *)
(* a uint32 is <<lo, hi>>, a (u)int64 is four limbs, an int64 in two's     *)
(* complement.                                                             *)
(***************************************************************************)
EXTENDS Integers, Sequences, FiniteSets, TLC

VARIABLES
    a_s1, a_s2,   \* adler32::s1, adler32::s2 (uint16 members)
    a_ovf,        \* ghost: some 32-bit local of an update call wrapped
    a_x,          \* the input and the members on entry: [pat, s1, s2]
    a_done,       \* number of bytes of the input already fed to update
    a_calls       \* number of update calls made

adlerVars == <<a_s1, a_s2, a_ovf, a_x, a_done, a_calls>>

VARIABLES
    de_ver,       \* the version argument of data_entry::load: [v, bits]
    de_src,       \* the field values the stream was built from
    de_is,        \* the std::istream argument: [buf, pos, fail]
    de,           \* the data_entry
    de_warn,      \* the warnings logged by load
    de_pc         \* "start" before load, "loaded" after it

dataVars == <<de_ver, de_src, de_is, de, de_warn, de_pc>>

VARIABLES
    pe_img,       \* the description the image was built from, and the ids sought
    pe_is,        \* the std::istream argument of find_resource: [buf, pos, fail]
    pe_pc,        \* the statement of find_resource that runs next
    pe_loc,       \* the locals of find_resource
    pe_result     \* the resource returned: [offset, size]

peVars == <<pe_img, pe_is, pe_pc, pe_loc, pe_result>>

vars == <<adlerVars, dataVars, peVars>>

(***************************************************************************)
(* Fixed-width unsigned arithmetic on limbs.                               *)
(***************************************************************************)
U32(hi, lo) == <<lo, hi>>

Zero(n) == [k \in 1..n |-> 0]

\* zero-extension of a to n limbs
ZExt(a, n) == [k \in 1..n |-> IF k <= Len(a) THEN a[k] ELSE 0]

\* a small non-negative integer (below 2^31) as n limbs
FromInt(i, n) == [k \in 1..n |-> IF k = 1 THEN i % 65536
                                 ELSE IF k = 2 THEN i \div 65536 ELSE 0]

\* TRUE iff the limbs hold a value below 2^31
IsSmall(a) == /\ \A k \in 3..Len(a) : a[k] = 0
              /\ (Len(a) >= 2 => a[2] < 32768)

\* the value of limbs that hold a value below 2^31
ToInt(a) == IF Len(a) = 0 THEN 0
            ELSE IF Len(a) = 1 THEN a[1] ELSE a[2] * 65536 + a[1]

RECURSIVE Carry(_, _, _)
Carry(a, b, k) == IF k = 0 THEN 0 ELSE (a[k] + b[k] + Carry(a, b, k - 1)) \div 65536

\* a + b modulo 2^(16 * Len(a))
AddL(a, b) == [k \in 1..Len(a) |-> (a[k] + b[k] + Carry(a, b, k - 1)) % 65536]

RECURSIVE Borrow(_, _, _)
Borrow(a, b, k) == IF k = 0 THEN 0
                   ELSE IF a[k] - b[k] - Borrow(a, b, k - 1) < 0 THEN 1 ELSE 0

\* a - b modulo 2^(16 * Len(a))
SubL(a, b) == [k \in 1..Len(a) |-> (a[k] - b[k] - Borrow(a, b, k - 1)) % 65536]

\* unsigned a < b
LtL(a, b) == Borrow(a, b, Len(a)) = 1

LeL(a, b) == ~LtL(b, a)

\* two's complement negation
NegL(a) == SubL(Zero(Len(a)), a)

\* the sign bit of a two's complement value
IsNeg(a) == a[Len(a)] >= 32768

\* signed a < b, both in two's complement
SLtL(a, b) == IF IsNeg(a) # IsNeg(b) THEN IsNeg(a) ELSE LtL(a, b)

RECURSIVE MulCarry(_, _, _)
MulCarry(a, m, k) == IF k = 0 THEN 0 ELSE (a[k] * m + MulCarry(a, m, k - 1)) \div 65536

\* a * m modulo 2^(16 * Len(a)), for a small factor m (below 2^15)
MulSmallL(a, m) == [k \in 1..Len(a) |-> (a[k] * m + MulCarry(a, m, k - 1)) % 65536]

\* The i-th 4-bit digit of a, digit 0 the least significant.
Nib(a, i) == (a[(i \div 4) + 1] \div (16 ^ (i % 4))) % 16

\* Long division by a small divisor d (below 2^27): the remainder of the
\* digits i and above.
RECURSIVE RemFrom(_, _, _)
RemFrom(a, d, i) == IF i = 4 * Len(a) THEN 0
                    ELSE (RemFrom(a, d, i + 1) * 16 + Nib(a, i)) % d

QuotDigit(a, d, i) == (RemFrom(a, d, i + 1) * 16 + Nib(a, i)) \div d

\* unsigned a \div d and a % d
DivSmallL(a, d) == [k \in 1..Len(a) |->
                      QuotDigit(a, d, 4 * (k - 1))
                      + 16 * QuotDigit(a, d, 4 * (k - 1) + 1)
                      + 256 * QuotDigit(a, d, 4 * (k - 1) + 2)
                      + 4096 * QuotDigit(a, d, 4 * (k - 1) + 3)]

ModSmallL(a, d) == RemFrom(a, d, 0)

(***************************************************************************)
(* Adler-32 (crypto/adler32.cpp).                                          *)
(***************************************************************************)
base == 65521

\* length % 0x8000: the distance between two reductions of s2
Window == 32768

\* The input bytes: pattern 0 is "abcabc...", pattern 1 is all 0xFF,
\* pattern 2 mixes all byte values, pattern 3 is all zero.
InputByte(pat, i) == IF pat = 0 THEN 97 + (i % 3)
                     ELSE IF pat = 1 THEN 255
                     ELSE IF pat = 2 THEN (i * 37 + 11) % 256
                     ELSE 0

\* s1 += byte, s2 += s1 on 32-bit locals; s1 is a plain integer (it stays
\* below 2^18), s2 is <<lo, hi>>.
AddByte(st, b) ==
    LET s1 == st.s1 + b
        lo == st.lo + (s1 % 65536)
        hi == st.hi + (s1 \div 65536) + (lo \div 65536)
    IN  [s1 |-> s1, lo |-> lo % 65536, hi |-> hi % 65536,
         ovf |-> st.ovf \/ hi >= 65536]

\* if(s1 >= base) s1 -= base;
ReduceS1(st) == IF st.s1 >= base THEN [st EXCEPT !.s1 = st.s1 - base] ELSE st

\* s2 %= base; 65536 = 15 (mod base)
ReduceS2(st) ==
    LET r == (st.hi * 15 + st.lo) % base
    IN  [st EXCEPT !.lo = r, !.hi = 0]

\* The do-while loop of lines 37-41: n bytes from offset off, 1 <= n <= 7.
RECURSIVE CatchUpLoop(_, _, _, _)
CatchUpLoop(st, pat, off, n) ==
    LET t == AddByte(st, InputByte(pat, off))
    IN  IF n = 1 THEN t ELSE CatchUpLoop(t, pat, off + 1, n - 1)

\* CatchUp without "s2 %= base" (line 47 left out).
CatchUpNoS2(st, pat, off, n) ==
    IF n # 0 THEN ReduceS1(CatchUpLoop(st, pat, off, n)) ELSE st

\* Lines 35-48.
CatchUp(st, pat, off, n) ==
    IF n # 0 THEN ReduceS2(ReduceS1(CatchUpLoop(st, pat, off, n))) ELSE st

\* Block8 without the reduction of s1 (lines 64-66 left out).
Block8NoS1(st, pat, off, rest) ==
    LET b0 == AddByte(st, InputByte(pat, off))
        b1 == AddByte(b0, InputByte(pat, off + 1))
        b2 == AddByte(b1, InputByte(pat, off + 2))
        b3 == AddByte(b2, InputByte(pat, off + 3))
        b4 == AddByte(b3, InputByte(pat, off + 4))
        b5 == AddByte(b4, InputByte(pat, off + 5))
        b6 == AddByte(b5, InputByte(pat, off + 6))
        b7 == AddByte(b6, InputByte(pat, off + 7))
    IN  IF rest % Window = 0 THEN ReduceS2(b7) ELSE b7

\* One iteration of the while loop of lines 50-71: 8 bytes from offset off;
\* rest is the value of length after "length -= 8".
Block8(st, pat, off, rest) ==
    LET b0 == AddByte(st, InputByte(pat, off))
        b1 == AddByte(b0, InputByte(pat, off + 1))
        b2 == AddByte(b1, InputByte(pat, off + 2))
        b3 == AddByte(b2, InputByte(pat, off + 3))
        b4 == AddByte(b3, InputByte(pat, off + 4))
        b5 == AddByte(b4, InputByte(pat, off + 5))
        b6 == AddByte(b5, InputByte(pat, off + 6))
        b7 == AddByte(b6, InputByte(pat, off + 7))
        r1 == ReduceS1(b7)
    IN  IF rest % Window = 0 THEN ReduceS2(r1) ELSE r1

\* The while loop of lines 50-71 over the blocks lo..hi-1 of nb blocks that
\* start at offset off. The iterations run in order; the range is halved
\* only to keep the evaluation shallow.
RECURSIVE MainLoop(_, _, _, _, _, _)
MainLoop(st, pat, off, nb, lo, hi) ==
    IF hi = lo THEN st
    ELSE IF hi = lo + 1 THEN Block8(st, pat, off + 8 * lo, 8 * (nb - lo - 1))
    ELSE LET mid == (lo + hi) \div 2
             left == MainLoop(st, pat, off, nb, lo, mid)
         IN  IF left.s1 >= 0 THEN MainLoop(left, pat, off, nb, mid, hi) ELSE left

\* adler32::update(input + off, length) on the members s = [s1, s2]:
\* the new members, and whether a 32-bit local wrapped.
update(s, pat, off, length) ==
    LET st0 == [s1 |-> s.s1, lo |-> s.s2, hi |-> 0, ovf |-> FALSE]
        n   == length % 8
        st1 == CatchUp(st0, pat, off, n)
        st2 == MainLoop(st1, pat, off + n, (length - n) \div 8, 0, (length - n) \div 8)
    IN  [s1 |-> st2.s1 % 65536, s2 |-> st2.lo, ovf |-> st2.ovf]

\* adler32::finalize: (s2 << 16) | s1
finalize(s1, s2) == U32(s2, s1)

(***************************************************************************)
(* The byte reader (util/load.hpp) and the version (setup/version.hpp).    *)
(***************************************************************************)
\* A std::istream over the bytes buf: the read position and the failbit.
Stream(buf) == [buf |-> buf, pos |-> 0, fail |-> FALSE]

\* is.read(buffer, n): n bytes, or failure (sticky) and zero bytes.
ReadBytes(is, n) ==
    IF is.fail \/ is.pos + n > Len(is.buf)
    THEN [is |-> [is EXCEPT !.fail = TRUE], bytes |-> [k \in 1..n |-> 0]]
    ELSE [is |-> [is EXCEPT !.pos = is.pos + n],
          bytes |-> [k \in 1..n |-> is.buf[is.pos + k]]]

\* little-endian bytes as 16-bit limbs
Limbs(bs) == [k \in 1..(Len(bs) \div 2) |-> bs[2 * k - 1] + 256 * bs[2 * k]]

\* util::load<uint16_t>: the value is a plain integer
Load16(is) == LET r == ReadBytes(is, 2) IN [is |-> r.is, val |-> Limbs(r.bytes)[1]]

\* util::load<uint32_t>
Load32(is) == LET r == ReadBytes(is, 4) IN [is |-> r.is, val |-> Limbs(r.bytes)]

\* util::load<uint64_t>, util::load<int64_t>
Load64(is) == LET r == ReadBytes(is, 8) IN [is |-> r.is, val |-> Limbs(r.bytes)]

\* util::load<uint32_t>(is, bits): a uint16 zero-extended, or a uint32
LoadNumber(is, bits) ==
    IF bits = 16
    THEN LET r == Load16(is) IN [is |-> r.is, val |-> <<r.val, 0>>]
    ELSE Load32(is)

\* util::get_bits(x, first, last)
get_bits(x, first, last) == (x \div (2 ^ first)) % (2 ^ (last - first + 1))

\* INNO_VERSION(a, b, c): ordered as the triple (a, b, c)
INNO_VERSION(a, b, c) == a * 16777216 + b * 65536 + c * 256

(***************************************************************************)
(* util::parse_time (util/time.cpp): timegm of a broken-down UTC time.     *)
(***************************************************************************)
\* days from 1970-01-01 to the civil date y-m-d (m in 1..12, d any)
DaysFromCivil(y, m, d) ==
    LET yy  == IF m <= 2 THEN y - 1 ELSE y
        era == yy \div 400
        yoe == yy - era * 400
        mp  == IF m > 2 THEN m - 3 ELSE m + 9
        doy == (153 * mp + 2) \div 5 + d - 1
        doe == yoe * 365 + yoe \div 4 - yoe \div 100 + doy
    IN  era * 146097 + doe - 719468

\* the int64 seconds since the epoch; timegm normalises the fields
parse_time(tm) ==
    LET y    == tm.year + 1900 + (tm.mon \div 12)
        m    == (tm.mon % 12) + 1
        days == DaysFromCivil(y, m, tm.mday)
        secs == tm.hour * 3600 + tm.min * 60 + tm.sec
    IN  AddL(MulSmallL(MulSmallL(FromInt(days, 4), 675), 128), FromInt(secs, 4))

(***************************************************************************)
(* data_entry::load (setup/data.cpp).                                      *)
(***************************************************************************)
\* static const boost::int64_t FiletimeOffset = 0x19DB1DED53E8000ll
FiletimeOffset == <<32768, 54590, 45534, 413>>

\* C++ int64 division and remainder by 10000000, truncating towards zero:
\* the quotient in two's complement, the remainder a plain integer.
TruncDiv(x) ==
    LET mag == IF IsNeg(x) THEN NegL(x) ELSE x
        q   == DivSmallL(mag, 10000000)
    IN  IF IsNeg(x) THEN NegL(q) ELSE q

TruncRem(x) ==
    LET mag == IF IsNeg(x) THEN NegL(x) ELSE x
        r   == ModSmallL(mag, 10000000)
    IN  IF IsNeg(x) THEN 0 - r ELSE r

\* boost::uint32_t(r) for an integer r of either sign
ToU32(r) == IF r >= 0 THEN FromInt(r, 2) ELSE NegL(FromInt(0 - r, 2))

\* Lines 82-91: the FAT date and time of 16-bit installers.
FatTime(time, date) ==
    LET t == [sec  |-> get_bits(time, 0, 4) * 2,
              min  |-> get_bits(time, 5, 10),
              hour |-> get_bits(time, 11, 15),
              mday |-> get_bits(date, 0, 4),
              mon  |-> get_bits(date, 5, 8) - 1,
              year |-> get_bits(date, 9, 15) + 1980 - 1900]
    IN  [timestamp |-> parse_time(t), nsec |-> <<0, 0>>, warn |-> FALSE]

\* Lines 97-106: the Win32 FILETIME of 32-bit installers.
FileTime(raw) ==
    LET filetime == SubL(raw, FiletimeOffset)
    IN  [timestamp |-> TruncDiv(filetime),
         nsec |-> MulSmallL(ToU32(TruncRem(filetime)), 100),
         warn |-> SLtL(raw, FiletimeOffset)]

\* FlagCatalog with TimeStampInUTC registered from 4.1.0 instead of 4.0.10.
FlagCatalogLateUTC(v) ==
    <<"VersionInfoValid", "VersionInfoNotValid">>
    \o (IF v >= INNO_VERSION(2, 0, 17) /\ v < INNO_VERSION(4, 0, 1)
        THEN <<"BZipped">> ELSE <<>>)
    \o (IF v >= INNO_VERSION(4, 1, 0) THEN <<"TimeStampInUTC">> ELSE <<>>)
    \o (IF v >= INNO_VERSION(4, 1, 0) THEN <<"IsUninstallerExe">> ELSE <<>>)
    \o (IF v >= INNO_VERSION(4, 1, 8) THEN <<"CallInstructionOptimized">> ELSE <<>>)
    \o (IF v >= INNO_VERSION(4, 2, 0) THEN <<"Touch">> ELSE <<>>)
    \o (IF v >= INNO_VERSION(4, 2, 2) THEN <<"ChunkEncrypted">> ELSE <<>>)
    \o (IF v >= INNO_VERSION(4, 2, 5) THEN <<"ChunkCompressed">> ELSE <<>>)
    \o (IF v >= INNO_VERSION(5, 1, 13) THEN <<"SolidBreak">> ELSE <<>>)

\* Lines 119-146: the flags registered with the flag reader, in order.
FlagCatalog(v) ==
    <<"VersionInfoValid", "VersionInfoNotValid">>
    \o (IF v >= INNO_VERSION(2, 0, 17) /\ v < INNO_VERSION(4, 0, 1)
        THEN <<"BZipped">> ELSE <<>>)
    \o (IF v >= INNO_VERSION(4, 0, 10) THEN <<"TimeStampInUTC">> ELSE <<>>)
    \o (IF v >= INNO_VERSION(4, 1, 0) THEN <<"IsUninstallerExe">> ELSE <<>>)
    \o (IF v >= INNO_VERSION(4, 1, 8) THEN <<"CallInstructionOptimized">> ELSE <<>>)
    \o (IF v >= INNO_VERSION(4, 2, 0) THEN <<"Touch">> ELSE <<>>)
    \o (IF v >= INNO_VERSION(4, 2, 2) THEN <<"ChunkEncrypted">> ELSE <<>>)
    \o (IF v >= INNO_VERSION(4, 2, 5) THEN <<"ChunkCompressed">> ELSE <<>>)
    \o (IF v >= INNO_VERSION(5, 1, 13) THEN <<"SolidBreak">> ELSE <<>>)

\* stored_flag_reader (util/storedenum.hpp): the packed bits of the catalog,
\* ceil(N / 8) bytes, an even number of bytes for 16-bit installers; bit i
\* of the bytes stands for the i-th registered flag.
FlagBytes(n, bits) ==
    LET nb == (n + 7) \div 8
    IN  IF bits = 16 THEN 2 * ((nb + 1) \div 2) ELSE nb

StoredFlags(is, bits, catalog) ==
    LET r == ReadBytes(is, FlagBytes(Len(catalog), bits))
    IN  [is |-> r.is,
         val |-> { catalog[i] : i \in { j \in 1..Len(catalog) :
                       get_bits(r.bytes[((j - 1) \div 8) + 1], (j - 1) % 8, (j - 1) % 8) = 1 } }]

\* Slices that decrements whatever is stored.
SlicesAlways(v, first, last) ==
    IF v < INNO_VERSION(4, 0, 0)
    THEN [first |-> SubL(first, <<1, 0>>), last |-> SubL(last, <<1, 0>>),
          warn |-> LtL(first, <<1, 0>>) \/ LtL(last, <<1, 0>>)]
    ELSE [first |-> first, last |-> last, warn |-> FALSE]

\* Lines 34-43: the slice numbers are stored 1-based before 4.0.0.
Slices(v, first, last) ==
    IF v < INNO_VERSION(4, 0, 0)
    THEN IF LtL(first, <<1, 0>>) \/ LtL(last, <<1, 0>>)
         THEN [first |-> first, last |-> last, warn |-> TRUE]
         ELSE [first |-> SubL(first, <<1, 0>>), last |-> SubL(last, <<1, 0>>),
               warn |-> FALSE]
    ELSE [first |-> first, last |-> last, warn |-> FALSE]

\* Lines 45-51: file.offset is stored from 4.0.1 on.
LoadFileOffset(is, v) ==
    IF v >= INNO_VERSION(4, 0, 1) THEN Load64(is) ELSE [is |-> is, val |-> Zero(4)]

\* LoadSize with the boundary of file.offset, 4.0.1.
LoadSizeFrom401(is, v) ==
    IF v >= INNO_VERSION(4, 0, 1) THEN Load64(is)
    ELSE LET r == Load32(is) IN [is |-> r.is, val |-> ZExt(r.val, 4)]

\* Lines 53-59: a size is 64 bits wide from 4.0.0 on, 32 bits before.
LoadSize(is, v) ==
    IF v >= INNO_VERSION(4, 0, 0) THEN Load64(is)
    ELSE LET r == Load32(is) IN [is |-> r.is, val |-> ZExt(r.val, 4)]

\* LoadChecksum with MD5 from 4.2.1 on instead of 4.2.0.
LoadChecksumLateMD5(is, v) ==
    IF v >= INNO_VERSION(5, 3, 9)
    THEN LET r == ReadBytes(is, 20) IN [is |-> r.is, type |-> "SHA1", val |-> r.bytes]
    ELSE IF v >= INNO_VERSION(4, 2, 1)
    THEN LET r == ReadBytes(is, 16) IN [is |-> r.is, type |-> "MD5", val |-> r.bytes]
    ELSE IF v >= INNO_VERSION(4, 0, 1)
    THEN LET r == Load32(is) IN [is |-> r.is, type |-> "CRC32", val |-> r.val]
    ELSE LET r == Load32(is) IN [is |-> r.is, type |-> "Adler32", val |-> r.val]

\* Lines 61-73: the checksum and its type.
LoadChecksum(is, v) ==
    IF v >= INNO_VERSION(5, 3, 9)
    THEN LET r == ReadBytes(is, 20) IN [is |-> r.is, type |-> "SHA1", val |-> r.bytes]
    ELSE IF v >= INNO_VERSION(4, 2, 0)
    THEN LET r == ReadBytes(is, 16) IN [is |-> r.is, type |-> "MD5", val |-> r.bytes]
    ELSE IF v >= INNO_VERSION(4, 0, 1)
    THEN LET r == Load32(is) IN [is |-> r.is, type |-> "CRC32", val |-> r.val]
    ELSE LET r == Load32(is) IN [is |-> r.is, type |-> "Adler32", val |-> r.val]

\* Lines 75-108: the timestamp.
LoadTime(is, bits) ==
    IF bits = 16
    THEN LET time == Load16(is)
             date == Load16(time.is)
         IN  [is |-> date.is, t |-> FatTime(time.val, date.val)]
    ELSE LET raw == Load64(is)
         IN  [is |-> raw.is, t |-> FileTime(raw.val)]

\* Options without the implied ChunkCompressed.
OptionsNotForced(v, flags) == flags

\* Lines 139-148: the options; ChunkCompressed is implied before 4.2.5.
Options(v, flags) ==
    (IF v >= INNO_VERSION(4, 2, 5) THEN {} ELSE {"ChunkCompressed"}) \cup flags

\* Lines 150-158.
Compression(options) ==
    IF "BZipped" \in options THEN "BZip2"
    ELSE IF "ChunkCompressed" \in options THEN "UnknownCompression"
    ELSE "Stored"

\* Filter with InstructionFilter5200 up to and including 5.3.9.
FilterLate5309(v, options) ==
    IF "CallInstructionOptimized" \in options
    THEN IF v < INNO_VERSION(5, 2, 0) THEN "InstructionFilter4108"
         ELSE IF v <= INNO_VERSION(5, 3, 9) THEN "InstructionFilter5200"
         ELSE "InstructionFilter5309"
    ELSE "NoFilter"

\* Lines 162-172.
Filter(v, options) ==
    IF "CallInstructionOptimized" \in options
    THEN IF v < INNO_VERSION(5, 2, 0) THEN "InstructionFilter4108"
         ELSE IF v < INNO_VERSION(5, 3, 9) THEN "InstructionFilter5200"
         ELSE "InstructionFilter5309"
    ELSE "NoFilter"

\* data_entry::load(is, version): the stream afterwards, the entry and the
\* warnings logged.
load(is0, ver) ==
    LET v       == ver.v
        first   == LoadNumber(is0, ver.bits)
        last    == LoadNumber(first.is, ver.bits)
        sl      == Slices(v, first.val, last.val)
        coffset == Load32(last.is)
        foffset == LoadFileOffset(coffset.is, v)
        fsize   == LoadSize(foffset.is, v)
        csize   == LoadSize(fsize.is, v)
        sum     == LoadChecksum(csize.is, v)
        time    == LoadTime(sum.is, ver.bits)
        ms      == Load32(time.is)
        ls      == Load32(ms.is)
        flags   == StoredFlags(ls.is, ver.bits, FlagCatalog(v))
        opts    == Options(v, flags.val)
        options == IF "BZipped" \in opts THEN opts \cup {"ChunkCompressed"} ELSE opts
    IN  [is |-> flags.is,
         entry |-> [first_slice    |-> sl.first,
                    last_slice     |-> sl.last,
                    chunk_offset   |-> coffset.val,
                    file_offset    |-> foffset.val,
                    file_size      |-> fsize.val,
                    chunk_size     |-> csize.val,
                    checksum_type  |-> sum.type,
                    checksum       |-> sum.val,
                    timestamp      |-> time.t.timestamp,
                    timestamp_nsec |-> time.t.nsec,
                    file_version   |-> ls.val \o ms.val,
                    options        |-> options,
                    compression    |-> Compression(options),
                    encrypted      |-> "ChunkEncrypted" \in options,
                    filter         |-> Filter(v, options)],
         warnings |-> (IF sl.warn THEN {"slice"} ELSE {})
                      \cup (IF time.t.warn THEN {"filetime"} ELSE {})]

(***************************************************************************)
(* The data_entry streams that load is run on.                             *)
(***************************************************************************)
\* the little-endian bytes of limbs
BytesOf(a) == [k \in 1..(2 * Len(a)) |->
                 IF k % 2 = 1 THEN a[(k + 1) \div 2] % 256 ELSE a[k \div 2] \div 256]

\* a number stored with the width of the installer
NumberBytes(a, bits) == IF bits = 16 THEN BytesOf(<<a[1]>>) ELSE BytesOf(a)

ChecksumBytes(v) ==
    IF v >= INNO_VERSION(5, 3, 9) THEN [k \in 1..20 |-> 160 + k]
    ELSE IF v >= INNO_VERSION(4, 2, 0) THEN [k \in 1..16 |-> 160 + k]
    ELSE [k \in 1..4 |-> 160 + k]

\* The on-disk record of section 4.7 for the field values src, followed by
\* the first bytes of the next record.
EncodeEntry(ver, src) ==
    NumberBytes(FromInt(src.first, 2), ver.bits)
    \o NumberBytes(FromInt(src.last, 2), ver.bits)
    \o BytesOf(src.chunk_offset)
    \o (IF ver.v >= INNO_VERSION(4, 0, 1) THEN BytesOf(src.file_offset) ELSE <<>>)
    \o (IF ver.v >= INNO_VERSION(4, 0, 0)
        THEN BytesOf(src.file_size) \o BytesOf(src.chunk_size)
        ELSE BytesOf(SubSeq(src.file_size, 1, 2)) \o BytesOf(SubSeq(src.chunk_size, 1, 2)))
    \o ChecksumBytes(ver.v)
    \o BytesOf(src.time)
    \o BytesOf(src.version_ms)
    \o BytesOf(src.version_ls)
    \o BytesOf(<<src.flagword>>)
    \o <<238, 238>>

\* the stream, cut to src.keep bytes when src.keep >= 0
StreamBytes(ver, src) ==
    LET full == EncodeEntry(ver, src)
    IN  IF src.keep < 0 \/ src.keep >= Len(full) THEN full
        ELSE SubSeq(full, 1, src.keep)

Versions ==
    { INNO_VERSION(1, 3, 21), INNO_VERSION(2, 0, 16), INNO_VERSION(2, 0, 17),
      INNO_VERSION(3, 0, 0), INNO_VERSION(4, 0, 0), INNO_VERSION(4, 0, 1),
      INNO_VERSION(4, 0, 9), INNO_VERSION(4, 0, 10), INNO_VERSION(4, 1, 0),
      INNO_VERSION(4, 1, 7), INNO_VERSION(4, 1, 8), INNO_VERSION(4, 2, 0),
      INNO_VERSION(4, 2, 1), INNO_VERSION(4, 2, 2), INNO_VERSION(4, 2, 4),
      INNO_VERSION(4, 2, 5), INNO_VERSION(5, 1, 0), INNO_VERSION(5, 1, 12),
      INNO_VERSION(5, 1, 13), INNO_VERSION(5, 2, 0), INNO_VERSION(5, 3, 8),
      INNO_VERSION(5, 3, 9), INNO_VERSION(5, 5, 0) }

\* Stored slice numbers: none, one or both of them zero.
SlicePairs == { <<0, 0>>, <<0, 2>>, <<3, 0>>, <<1, 1>>, <<2, 3>> }

\* Raw FILETIME values: the epoch offset and its neighbours, 2000-01-01,
\* one second and one day before the epoch, zero and -1.
FileTimes ==
    { FiletimeOffset,
      SubL(FiletimeOffset, FromInt(1, 4)),
      AddL(FiletimeOffset, FromInt(15, 4)),
      SubL(FiletimeOffset, FromInt(10000000, 4)),
      SubL(FiletimeOffset, FromInt(15000001, 4)),
      <<16384, 9581, 21483, 447>>,
      Zero(4),
      <<65535, 65535, 65535, 65535>> }

\* FAT <<time, date>> pairs: 2000-01-01 12:00:00, all bits clear, all set.
FatTimes == { <<24576, 10273>>, <<0, 0>>, <<65535, 65535>> }

\* The two bytes the flags are read from: no bit, every bit, each one bit.
FlagWords == { 0, 65535, 341 } \cup { 2 ^ k : k \in 0..9 }

\* Lengths that streams are cut to.
CutLens == { 0, 3, 30 }

SourceOf(bits, sl, time, fw, keep) ==
    [first |-> sl[1], last |-> sl[2],
     chunk_offset |-> <<13124, 4386>>,
     file_offset  |-> <<257, 514, 771, 1028>>,
     file_size    |-> <<4369, 8738, 13107, 17476>>,
     chunk_size   |-> <<43690, 48059, 0, 32768>>,
     time         |-> time,
     version_ms   |-> <<2, 1>>,
     version_ls   |-> <<4, 3>>,
     flagword     |-> fw,
     keep         |-> keep]

\* Every slice pair with every time; every flag word; the cut streams.
Sources(bits) ==
    { SourceOf(bits, sl, t, fw, 0 - 1) :
        sl \in SlicePairs,
        t \in (IF bits = 16 THEN FatTimes ELSE FileTimes),
        fw \in {0, 341} }
    \cup { SourceOf(bits, sl, IF bits = 16 THEN <<24576, 10273>> ELSE FiletimeOffset,
                    fw, 0 - 1) : sl \in { <<1, 1>>, <<0, 2>> }, fw \in FlagWords }
    \cup { SourceOf(bits, <<1, 1>>, IF bits = 16 THEN <<24576, 10273>> ELSE FiletimeOffset,
                    65535, n) : n \in CutLens }

EmptyEntry ==
    [first_slice |-> <<0, 0>>, last_slice |-> <<0, 0>>, chunk_offset |-> <<0, 0>>,
     file_offset |-> Zero(4), file_size |-> Zero(4), chunk_size |-> Zero(4),
     checksum_type |-> "None", checksum |-> <<>>,
     timestamp |-> Zero(4), timestamp_nsec |-> <<0, 0>>, file_version |-> Zero(4),
     options |-> {}, compression |-> "Stored", encrypted |-> FALSE,
     filter |-> "NoFilter"]

InitData ==
    /\ de_ver \in { [v |-> v, bits |-> b] : v \in Versions, b \in {16, 32} }
    /\ de_src \in Sources(de_ver.bits)
    /\ de_is = Stream(StreamBytes(de_ver, de_src))
    /\ de = EmptyEntry
    /\ de_warn = {}
    /\ de_pc = "start"

\* One call entry.load(is, version).
Load ==
    /\ de_pc = "start"
    /\ LET r == load(de_is, de_ver)
       IN  /\ de_is' = r.is
           /\ de' = r.entry
           /\ de_warn' = r.warnings
    /\ de_pc' = "loaded"
    /\ UNCHANGED <<de_ver, de_src>>

(***************************************************************************)
(* The PE resource locator (loader/exereader.cpp).                         *)
(***************************************************************************)
\* A position past the end of every image, for offsets of 2^31 and more.
FarAway == 2 ^ 30

\* is.seekg(pos): a file stream seeks to any position; nothing happens once
\* the failbit is set.
Seek(is, pos) == IF is.fail THEN is ELSE [is EXCEPT !.pos = pos]

\* is.seekg(pos) for a uint32 position
SeekL(is, a) == Seek(is, IF IsSmall(a) /\ ToInt(a) < FarAway THEN ToInt(a) ELSE FarAway)

\* is.seekg(n, std::ios_base::cur)
Skip(is, n) == Seek(is, IF is.pos + n < FarAway THEN is.pos + n ELSE FarAway)

\* boost::uint32_t(is.tellg()): tellg() is -1 once the failbit is set
Tell(is) == IF is.fail THEN <<65535, 65535>> ELSE FromInt(is.pos, 2)

PE_MAGIC == <<80, 69, 0, 0>>

\* the bit 31 of a uint32
HighBit(a) == a[2] >= 32768

\* get_resource_table(entry, resource_offset): whether the entry points to a
\* table, and the entry as a file offset.
get_resource_table(entry, resource_offset) ==
    [is_table |-> HighBit(entry),
     entry |-> AddL(<<entry[1], entry[2] % 32768>>, resource_offset)]

\* Lines 122-135: the scan of the id entries i..nbids-1.
RECURSIVE ScanIds(_, _, _, _)
ScanIds(is, needle, i, nbids) ==
    IF i >= nbids THEN [is |-> is, val |-> <<0, 0>>]
    ELSE LET id     == Load32(is)
             offset == Load32(id.is)
         IN  IF offset.is.fail THEN [is |-> offset.is, val |-> <<0, 0>>]
             ELSE IF id.val = needle THEN [is |-> offset.is, val |-> offset.val]
             ELSE ScanIds(offset.is, needle, i + 1, nbids)

\* SkipNamed that leaves the named entries to the scan.
SkipNamedNot(is, nbnames) == Skip(is, 0)

\* Lines 116-118: the named entries are skipped.
SkipNamed(is, nbnames) == Skip(is, nbnames * (4 + 4))

\* find_resource_entry(is, needle)
find_resource_entry(is, needle) ==
    LET s1 == Skip(is, 4 + 4 + 2 + 2)
        nbnames == Load16(s1)
        nbids   == Load16(nbnames.is)
        s2 == SkipNamed(nbids.is, nbnames.val)
    IN  IF s1.fail THEN [is |-> s1, val |-> <<0, 0>>]
        ELSE IF s2.fail THEN [is |-> s2, val |-> <<0, 0>>]
        ELSE ScanIds(s2, needle, 0, nbids.val)

\* DirectoriesOk that asks for two directories only.
DirectoriesOkTwo(ndirectories) == ~LtL(ndirectories, <<2, 0>>)

\* Line 174: ndirectories < 3 is refused.
DirectoriesOk(ndirectories) == ~LtL(ndirectories, <<3, 0>>)

\* load_header(is, coff): [ok, is, coff]
load_header(is) ==
    LET peOffset == Load16(Seek(is, 60))
        magic    == ReadBytes(Seek(peOffset.is, peOffset.val), 4)
        s1 == Skip(magic.is, 2)
        nsections == Load16(s1)
        s2 == Skip(nsections.is, 4 + 4 + 4)
        optional_header_size == Load16(s2)
        s3 == Skip(optional_header_size.is, 2)
        section_table_offset == AddL(Tell(s3), <<optional_header_size.val, 0>>)
        optionalHeaderMagic == Load16(s3)
        s4 == Skip(optionalHeaderMagic.is,
                   IF optionalHeaderMagic.val = 523 THEN 106 ELSE 90)
        ndirectories == Load32(s4)
        s5 == Skip(ndirectories.is, 2 * (4 + 4))
        resource_table_address == Load32(s5)
        resource_size == Load32(resource_table_address.is)
        coff == [nsections |-> nsections.val,
                 section_table_offset |-> section_table_offset,
                 resource_table_address |-> resource_table_address.val]
        none == [nsections |-> 0, section_table_offset |-> <<0, 0>>,
                 resource_table_address |-> <<0, 0>>]
    IN  IF peOffset.is.fail THEN [ok |-> FALSE, is |-> peOffset.is, coff |-> none]
        ELSE IF magic.is.fail THEN [ok |-> FALSE, is |-> magic.is, coff |-> none]
        ELSE IF magic.bytes # PE_MAGIC THEN [ok |-> FALSE, is |-> magic.is, coff |-> none]
        ELSE IF optionalHeaderMagic.is.fail
        THEN [ok |-> FALSE, is |-> optionalHeaderMagic.is, coff |-> none]
        ELSE IF ndirectories.is.fail \/ ~DirectoriesOk(ndirectories.val)
        THEN [ok |-> FALSE, is |-> ndirectories.is, coff |-> none]
        ELSE IF \/ resource_size.is.fail
                \/ resource_table_address.val = <<0, 0>>
                \/ resource_size.val = <<0, 0>>
        THEN [ok |-> FALSE, is |-> resource_size.is, coff |-> none]
        ELSE [ok |-> TRUE, is |-> resource_size.is, coff |-> coff]

\* Lines 196-211: the sections i+1..n of the table.
RECURSIVE ReadSections(_, _, _)
ReadSections(is, table, n) ==
    IF Len(table) >= n THEN [is |-> is, table |-> table]
    ELSE LET s1 == Skip(is, 8)
             virtual_size    == Load32(s1)
             virtual_address == Load32(virtual_size.is)
             s2 == Skip(virtual_address.is, 4)
             raw_address     == Load32(s2)
             s3 == Skip(raw_address.is, 4 + 4 + 2 + 2 + 4)
         IN  ReadSections(s3,
                          Append(table, [virtual_size |-> virtual_size.val,
                                         virtual_address |-> virtual_address.val,
                                         raw_address |-> raw_address.val]),
                          n)

\* load_section_list(is, coff, table): [ok, is, table]
load_section_list(is, coff) ==
    LET r == ReadSections(SeekL(is, coff.section_table_offset), <<>>, coff.nsections)
    IN  [ok |-> ~r.is.fail, is |-> r.is, table |-> r.table]

\* to_file_offset(sections, memory), the sections from the i-th on; the
\* arithmetic is that of uint32.
RECURSIVE to_file_offset_from(_, _, _)
to_file_offset_from(sections, memory, i) ==
    IF i > Len(sections) THEN <<0, 0>>
    ELSE LET s == sections[i]
         IN  IF /\ ~LtL(memory, s.virtual_address)
                /\ LtL(memory, AddL(s.virtual_address, s.virtual_size))
             THEN SubL(AddL(memory, s.raw_address), s.virtual_address)
             ELSE to_file_offset_from(sections, memory, i + 1)

to_file_offset(sections, memory) == to_file_offset_from(sections, memory, 1)

\* LeafEntryOk that takes a table for a leaf.
LeafEntryOkAny(leaf_offset, is_table) == leaf_offset # <<0, 0>>

\* Line 268: the language entry must be there and must be a leaf.
LeafEntryOk(leaf_offset, is_table) == leaf_offset # <<0, 0>> /\ ~is_table

(***************************************************************************)
(* The PE images that find_resource is run on (the layout of section 6).   *)
(***************************************************************************)
\* Bounds: the named entries and the other id entries before the sought one
\* in a resource directory.
MaxNamed == 2

MaxOther == 2

Fill(n, b) == [k \in 1..n |-> b]

\* the room of one directory: its header and its entries
DirSlot == 16 + 8 * (MaxNamed + MaxOther + 2)

\* the file offset of the resource root in every image
RootOff == 384 + 16

LeafRel == 3 * DirSlot

DecoyRel == 3 * DirSlot + 16

Sec(vsize, va, raw) ==
    [virtual_size |-> vsize, virtual_address |-> va, raw_address |-> raw]

Text == Sec(<<4096, 0>>, <<4096, 0>>, <<1024, 0>>)

Rsrc == Sec(<<4096, 0>>, <<12288, 0>>, <<384, 0>>)

Data == Sec(<<2048, 0>>, <<20480, 0>>, <<2304, 0>>)

\* a section whose end, 0xFFFFFF00 + 0x200, is past 2^32
High == Sec(<<512, 0>>, <<65280, 65535>>, <<384, 0>>)

\* a section whose file offsets, from 0xFFFFFF00 on, pass 2^32
BigRaw == Sec(<<4096, 0>>, <<24576, 0>>, <<65280, 65535>>)

LayoutA == <<Text, Rsrc>>

LayoutB == <<Rsrc, Data, Text>>

LayoutW == <<Text, High, Rsrc, BigRaw>>

\* the resource directory RVA 0x3010, at RootOff in Rsrc
ResRva == <<12304, 0>>

\* the RVA 0xFFFFFF10, at RootOff in High
ResRvaHigh == <<65296, 65535>>

\* 0x2800, in no section
GapRva == <<10240, 0>>

\* Leaf data RVAs: the first, an inner and the last address of Text, the
\* address after it, the gap, an address of High and one of BigRaw.
LeafRvas == { <<4096, 0>>, <<4660, 0>>, <<8191, 0>>, <<8192, 0>>, GapRva,
              <<65408, 65535>>, <<25088, 0>> }

\* the entry fields of a sound tree: two tables and a leaf
Table1 == U32(32768, DirSlot)

Table2 == U32(32768, 2 * DirSlot)

Leaf3 == U32(0, LeafRel)

SoughtIds == [name |-> <<11111, 0>>, type |-> <<10, 0>>, language |-> <<0, 0>>]

\* The bytes of a directory: named entries whose first field is the sought
\* id, id entries with other ids, the sought entry if present, one more id
\* entry.
DirBytes(needle, named, others, present, entry, decoy) ==
    LET names == [k \in 1..named |-> BytesOf(needle) \o BytesOf(decoy)]
        other == [k \in 1..(others + 1) |->
                     BytesOf(AddL(needle, FromInt(k, 2))) \o BytesOf(decoy)]
        flat[k \in 0..(others + 1)] ==
            IF k = 0 THEN <<>> ELSE flat[k - 1] \o other[k]
        nflat[k \in 0..named] ==
            IF k = 0 THEN <<>> ELSE nflat[k - 1] \o names[k]
        ids == flat[others]
               \o (IF present THEN BytesOf(needle) \o BytesOf(entry) ELSE <<>>)
               \o other[others + 1]
        dir == Fill(12, 119) \o BytesOf(<<named>>)
               \o BytesOf(<<others + 1 + (IF present THEN 1 ELSE 0)>>)
               \o nflat[named] \o ids
    IN  dir \o Fill(DirSlot - Len(dir), 0)

SectionBytes(sec) ==
    Fill(8, 46) \o BytesOf(sec.virtual_size) \o BytesOf(sec.virtual_address)
    \o Fill(4, 51) \o BytesOf(sec.raw_address) \o Fill(16, 68)

ImageBytes(p) ==
    LET opt == BytesOf(<<p.optMagic>>)
               \o Fill(IF p.optMagic = 523 THEN 106 ELSE 90, 17)
               \o BytesOf(p.ndirs) \o Fill(16, 34)
               \o BytesOf(p.resRva) \o BytesOf(p.resSize)
        tab[k \in 0..Len(p.sections)] ==
            IF k = 0 THEN <<>> ELSE tab[k - 1] \o SectionBytes(p.sections[k])
        head == Fill(60, 77) \o BytesOf(<<64>>) \o Fill(2, 0)
                \o p.sig \o BytesOf(<<332>>) \o BytesOf(<<Len(p.sections)>>)
                \o Fill(12, 85) \o BytesOf(<<Len(opt)>>) \o Fill(2, 1)
                \o opt \o tab[Len(p.sections)]
        full == head \o Fill(RootOff - Len(head), 0)
                \o DirBytes(SoughtIds.type, p.named, p.others, p.present[1],
                            p.entries[1], U32(0, DecoyRel))
                \o DirBytes(SoughtIds.name, p.named, p.others, p.present[2],
                            p.entries[2], U32(0, DecoyRel))
                \o DirBytes(SoughtIds.language, p.named, p.others, p.present[3],
                            p.entries[3], U32(0, DecoyRel))
                \o BytesOf(p.leafRva) \o BytesOf(p.leafSize) \o Fill(8, 0)
                \o BytesOf(<<4112, 0>>) \o BytesOf(<<999, 0>>) \o Fill(8, 0)
    IN  IF p.cut < 0 THEN full ELSE SubSeq(full, 1, p.cut)

\* a sound image
Sound(optMagic, named, others, layout, leafRva) ==
    [sig |-> PE_MAGIC, optMagic |-> optMagic, ndirs |-> <<16, 0>>,
     resRva |-> ResRva, resSize |-> <<512, 0>>, sections |-> layout,
     named |-> named, others |-> others,
     present |-> <<TRUE, TRUE, TRUE>>, entries |-> <<Table1, Table2, Leaf3>>,
     leafRva |-> leafRva, leafSize |-> <<4660, 22136>>,
     cut |-> 0 - 1, failed |-> FALSE, pos0 |-> 0]

Plain(optMagic) == Sound(optMagic, 1, 1, LayoutA, <<4660, 0>>)

\* The images: sound ones with every number of entries and every layout,
\* every leaf RVA, and one defect at a time.
Images ==
    { Sound(m, n, o, l, <<4660, 0>>) :
        m \in {267, 523}, n \in 0..MaxNamed, o \in 0..MaxOther,
        l \in {LayoutA, LayoutB, LayoutW} }
    \cup { Sound(m, 1, 1, l, a) :
        m \in {267, 523}, l \in {LayoutA, LayoutB, LayoutW}, a \in LeafRvas }
    \cup UNION { {
        [Plain(m) EXCEPT !.sig = <<80, 69, 0, 1>>],
        [Plain(m) EXCEPT !.sig = <<77, 90, 0, 0>>],
        [Plain(m) EXCEPT !.ndirs = <<0, 0>>],
        [Plain(m) EXCEPT !.ndirs = <<2, 0>>],
        [Plain(m) EXCEPT !.ndirs = <<3, 0>>],
        [Plain(m) EXCEPT !.resRva = <<0, 0>>],
        [Plain(m) EXCEPT !.resSize = <<0, 0>>],
        [Plain(m) EXCEPT !.resRva = GapRva],
        [Plain(m) EXCEPT !.sections = <<>>],
        [Plain(m) EXCEPT !.sections = LayoutW, !.resRva = ResRvaHigh],
        [Plain(m) EXCEPT !.present = <<FALSE, TRUE, TRUE>>],
        [Plain(m) EXCEPT !.present = <<TRUE, FALSE, TRUE>>],
        [Plain(m) EXCEPT !.present = <<TRUE, TRUE, FALSE>>],
        [Plain(m) EXCEPT !.entries = <<U32(0, DirSlot), Table2, Leaf3>>],
        [Plain(m) EXCEPT !.entries = <<Table1, U32(0, 2 * DirSlot), Leaf3>>],
        [Plain(m) EXCEPT !.entries = <<Table1, Table2, U32(32768, LeafRel)>>],
        [Plain(m) EXCEPT !.entries = <<Table1, Table2, <<0, 0>>>>],
        [Plain(m) EXCEPT !.failed = TRUE],
        [Plain(m) EXCEPT !.pos0 = 17] } : m \in {267, 523} }
    \cup { [Plain(267) EXCEPT !.cut = c] :
             c \in { 0, 61, 66, 100, 250, RootOff + 14, RootOff + DirSlot + 30,
                     RootOff + 2 * DirSlot + 40, RootOff + LeafRel + 6 } }

NoLocals ==
    [coff |-> [nsections |-> 0, section_table_offset |-> <<0, 0>>,
               resource_table_address |-> <<0, 0>>],
     sections |-> <<>>, resource_offset |-> <<0, 0>>, type_offset |-> <<0, 0>>,
     name_offset |-> <<0, 0>>, leaf_offset |-> <<0, 0>>,
     data_address |-> <<0, 0>>, data_offset |-> <<0, 0>>]

NotFound == [offset |-> <<0, 0>>, size |-> <<0, 0>>]

InitPE ==
    /\ pe_img \in Images
    /\ pe_is = [buf |-> ImageBytes(pe_img), pos |-> pe_img.pos0, fail |-> pe_img.failed]
    /\ pe_pc = "load_header"
    /\ pe_loc = NoLocals
    /\ pe_result = NotFound

\* Lines 234-242.
LoadHeader ==
    /\ pe_pc = "load_header"
    /\ LET r == load_header(Seek(pe_is, 0))
       IN  /\ pe_is' = r.is
           /\ pe_loc' = [pe_loc EXCEPT !.coff = r.coff]
           /\ pe_pc' = IF r.ok THEN "load_section_list" ELSE "done"
    /\ UNCHANGED <<pe_img, pe_result, adlerVars, dataVars>>

\* Lines 244-247.
LoadSectionList ==
    /\ pe_pc = "load_section_list"
    /\ LET r == load_section_list(pe_is, pe_loc.coff)
       IN  /\ pe_is' = r.is
           /\ pe_loc' = [pe_loc EXCEPT !.sections = r.table]
           /\ pe_pc' = IF r.ok THEN "resource_offset" ELSE "done"
    /\ UNCHANGED <<pe_img, pe_result, adlerVars, dataVars>>

\* Lines 249-252.
ResourceOffset ==
    /\ pe_pc = "resource_offset"
    /\ LET resource_offset ==
               to_file_offset(pe_loc.sections, pe_loc.coff.resource_table_address)
       IN  /\ pe_loc' = [pe_loc EXCEPT !.resource_offset = resource_offset]
           /\ pe_pc' = IF resource_offset = <<0, 0>> THEN "done" ELSE "type"
    /\ UNCHANGED <<pe_img, pe_is, pe_result, adlerVars, dataVars>>

\* Lines 254-258.
TypeLevel ==
    /\ pe_pc = "type"
    /\ LET r == find_resource_entry(SeekL(pe_is, pe_loc.resource_offset), SoughtIds.type)
           t == get_resource_table(r.val, pe_loc.resource_offset)
       IN  /\ pe_is' = r.is
           /\ pe_loc' = [pe_loc EXCEPT !.type_offset = t.entry]
           /\ pe_pc' = IF t.is_table THEN "name" ELSE "done"
    /\ UNCHANGED <<pe_img, pe_result, adlerVars, dataVars>>

\* Lines 260-264.
NameLevel ==
    /\ pe_pc = "name"
    /\ LET r == find_resource_entry(SeekL(pe_is, pe_loc.type_offset), SoughtIds.name)
           t == get_resource_table(r.val, pe_loc.resource_offset)
       IN  /\ pe_is' = r.is
           /\ pe_loc' = [pe_loc EXCEPT !.name_offset = t.entry]
           /\ pe_pc' = IF t.is_table THEN "language" ELSE "done"
    /\ UNCHANGED <<pe_img, pe_result, adlerVars, dataVars>>

\* Lines 266-270.
LanguageLevel ==
    /\ pe_pc = "language"
    /\ LET r == find_resource_entry(SeekL(pe_is, pe_loc.name_offset), SoughtIds.language)
           t == IF r.val = <<0, 0>> THEN [is_table |-> FALSE, entry |-> r.val]
                ELSE get_resource_table(r.val, pe_loc.resource_offset)
       IN  /\ pe_is' = r.is
           /\ pe_loc' = [pe_loc EXCEPT !.leaf_offset = t.entry]
           /\ pe_pc' = IF LeafEntryOk(r.val, t.is_table) THEN "leaf" ELSE "done"
    /\ UNCHANGED <<pe_img, pe_result, adlerVars, dataVars>>

\* Leaf without the test of the stream after the two reads.
LeafUnchecked ==
    /\ pe_pc = "leaf"
    /\ LET data_address == Load32(SeekL(pe_is, pe_loc.leaf_offset))
           data_size    == Load32(data_address.is)
           data_offset  == to_file_offset(pe_loc.sections, data_address.val)
       IN  /\ pe_is' = data_size.is
           /\ pe_loc' = [pe_loc EXCEPT !.data_address = data_address.val,
                                       !.data_offset = data_offset]
           /\ pe_result' = IF data_offset = <<0, 0>> THEN NotFound
                           ELSE [offset |-> data_offset, size |-> data_size.val]
    /\ pe_pc' = "done"
    /\ UNCHANGED <<pe_img, adlerVars, dataVars>>

\* Lines 272-289.
Leaf ==
    /\ pe_pc = "leaf"
    /\ LET data_address == Load32(SeekL(pe_is, pe_loc.leaf_offset))
           data_size    == Load32(data_address.is)
           data_offset  == to_file_offset(pe_loc.sections, data_address.val)
       IN  /\ pe_is' = data_size.is
           /\ IF data_size.is.fail
              THEN UNCHANGED <<pe_loc, pe_result>>
              ELSE /\ pe_loc' = [pe_loc EXCEPT !.data_address = data_address.val,
                                               !.data_offset = data_offset]
                   /\ pe_result' = IF data_offset = <<0, 0>> THEN NotFound
                                   ELSE [offset |-> data_offset, size |-> data_size.val]
    /\ pe_pc' = "done"
    /\ UNCHANGED <<pe_img, adlerVars, dataVars>>

NextPE ==
    \/ LoadHeader
    \/ LoadSectionList
    \/ ResourceOffset
    \/ TypeLevel
    \/ NameLevel
    \/ LanguageLevel
    \/ Leaf

\* Bounds of the Adler-32 runs: the number of update calls and the longest
\* short chunk. A long run has one chunk longer than the reduction window
\* and few short lengths; a short run has every length up to MaxShort.
MaxCalls == 3

MaxShort == 9

LongChunk == Window + 9

ChunkLens(x) == IF x.long THEN {0, 3, 8, LongChunk} ELSE 0..MaxShort

MaxInput(x) == IF x.long THEN LongChunk + 2 * MaxShort ELSE MaxCalls * MaxShort

\* Members on entry: after init(), and the largest reduced state.
EntryStates == { <<1, 0>>, <<65520, 65520>> }

ShortInputs == { [pat |-> p, s1 |-> e[1], s2 |-> e[2], long |-> FALSE] :
                    p \in 0..2, e \in EntryStates }

\* Pattern 3 from <<65520, 65520>> keeps s1 at its largest value, which is
\* the fastest growth of s2 between two reductions.
LongInputs == { [pat |-> 2, s1 |-> 1, s2 |-> 0, long |-> TRUE],
                [pat |-> 3, s1 |-> 65520, s2 |-> 65520, long |-> TRUE] }

\* No checksum is being computed.
IdleAdler ==
    /\ a_x = [pat |-> 0, s1 |-> 1, s2 |-> 0, long |-> FALSE]
    /\ a_s1 = 1 /\ a_s2 = 0 /\ a_ovf = FALSE /\ a_done = 0 /\ a_calls = 0

\* No entry is being loaded.
IdleData ==
    /\ de_ver = [v |-> INNO_VERSION(5, 5, 0), bits |-> 32]
    /\ de_src = SourceOf(32, <<1, 1>>, FiletimeOffset, 0, 0 - 1)
    /\ de_is = Stream(<<>>)
    /\ de = EmptyEntry
    /\ de_warn = {}
    /\ de_pc = "idle"

\* No image is being searched.
IdlePE ==
    /\ pe_img = Plain(267)
    /\ pe_is = Stream(<<>>)
    /\ pe_pc = "idle"
    /\ pe_loc = NoLocals
    /\ pe_result = NotFound

InitAdler ==
    /\ IdleData
    /\ IdlePE
    /\ a_x \in ShortInputs \cup LongInputs
    /\ a_s1 = a_x.s1
    /\ a_s2 = a_x.s2
    /\ a_ovf = FALSE
    /\ a_done = 0
    /\ a_calls = 0

\* One call update(input + a_done, len).
Update(len) ==
    /\ a_calls < MaxCalls
    /\ a_done + len <= MaxInput(a_x)
    /\ LET r == update([s1 |-> a_s1, s2 |-> a_s2], a_x.pat, a_done, len)
       IN  /\ a_s1' = r.s1
           /\ a_s2' = r.s2
           /\ a_ovf' = (a_ovf \/ r.ovf)
    /\ a_done' = a_done + len
    /\ a_calls' = a_calls + 1
    /\ UNCHANGED <<a_x, dataVars, peVars>>

NextAdler == \E len \in ChunkLens(a_x) : Update(len)

SpecAdler == InitAdler /\ [][NextAdler]_vars

NextData == Load /\ UNCHANGED <<adlerVars, peVars>>

\* A data entry is to be loaded; nothing else is in use.
InitLoad ==
    /\ IdleAdler
    /\ IdlePE
    /\ InitData

SpecData == InitLoad /\ [][NextData]_vars

\* An image is to be searched; nothing else is in use.
InitFind ==
    /\ IdleAdler
    /\ IdleData
    /\ InitPE

SpecPE == InitFind /\ [][NextPE]_vars

\* The byte-at-a-time definition of the checksum over the bytes lo..hi-1:
\* s1 <- (s1 + b) mod 65521, s2 <- (s2 + s1) mod 65521.
RECURSIVE Reference(_, _, _, _)
Reference(s, pat, lo, hi) ==
    IF hi = lo THEN s
    ELSE IF hi = lo + 1
    THEN LET t == (s.s1 + InputByte(pat, lo)) % 65521
         IN  [s1 |-> t, s2 |-> (s.s2 + t) % 65521]
    ELSE LET mid == (lo + hi) \div 2
             left == Reference(s, pat, lo, mid)
         IN  IF left.s1 >= 0 THEN Reference(left, pat, mid, hi) ELSE left

\* C3: feeding the bytes 0..a_done-1 in chunks leaves the members that one
\* update call on all of them leaves.
C3_ChunkingIndependent ==
    LET one == update([s1 |-> a_x.s1, s2 |-> a_x.s2], a_x.pat, 0, a_done)
    IN  a_s1 = one.s1 /\ a_s2 = one.s2

\* Three calls from (1, 0): an empty chunk, a chunk of 3 bytes and a chunk
\* longer than the window.
C3_Witness ==
    /\ a_calls = 3 /\ a_done = LongChunk + 3
    /\ a_x.s1 = 1 /\ a_x.s2 = 0

\* C4: update leaves the members of the byte-at-a-time reference, both below
\* 65521, and no 32-bit local wraps; the checksums of "", "a" and "abc".
C4_MatchesReference ==
    LET r == Reference([s1 |-> a_x.s1, s2 |-> a_x.s2], a_x.pat, 0, a_done)
        plain == a_x.pat = 0 /\ a_x.s1 = 1 /\ a_x.s2 = 0
    IN  /\ a_s1 = r.s1 /\ a_s2 = r.s2
        /\ a_s1 < 65521 /\ a_s2 < 65521
        /\ ~a_ovf
        /\ (plain /\ a_done = 0 => finalize(a_s1, a_s2) = U32(0, 1))
        /\ (plain /\ a_done = 1 => finalize(a_s1, a_s2) = U32(98, 98))
        /\ (plain /\ a_done = 3 => finalize(a_s1, a_s2) = U32(589, 295))

\* One call of a length that is not a multiple of 8 and crosses the window,
\* from the largest entry state.
C4_Witness ==
    /\ a_calls = 1 /\ a_done = LongChunk
    /\ a_x.s1 = 65520 /\ a_x.s2 = 65520

(***************************************************************************)
(* Claims about data_entry::load.                                          *)
(***************************************************************************)
\* load has returned and no read of it failed
Loaded == de_pc = "loaded" /\ ~de_is.fail

MinusOne == <<65535, 65535, 65535, 65535>>

\* 0x01BF53EB256D4000, 2000-01-01T00:00:00Z
FileTime2000 == <<16384, 9581, 21483, 447>>

\* C1: on a 32-bit installer a raw FILETIME below FiletimeOffset decodes to a
\* negative timestamp, FiletimeOffset - 1 to -1 and 0x01BF53EB256D4000 to
\* 946684800 with no nanoseconds, and the fields after the timestamp are
\* still read.
C1_FiletimeBelowOffset ==
    Loaded /\ de_ver.bits = 32 =>
        /\ (SLtL(de_src.time, FiletimeOffset) =>
                IsNeg(de.timestamp) /\ "filetime" \in de_warn)
        /\ (de_src.time = SubL(FiletimeOffset, FromInt(1, 4)) =>
                de.timestamp = MinusOne)
        /\ (de_src.time = FileTime2000 =>
                /\ IsSmall(de.timestamp) /\ ToInt(de.timestamp) = 946684800
                /\ de.timestamp_nsec = <<0, 0>>)
        /\ de.file_version = de_src.version_ls \o de_src.version_ms

\* 10^9 as a uint32
Billion == <<51712, 15258>>

\* C2: after a load without a read failure timestamp_nsec is below 10^9,
\* and 0 on the FAT path.
C2_NsecInRange ==
    Loaded =>
        /\ LtL(de.timestamp_nsec, Billion)
        /\ (de_ver.bits = 16 => de.timestamp_nsec = <<0, 0>>)

\* The flags in the order of registration and the versions they are
\* registered at.
FlagOrder ==
    <<"VersionInfoValid", "VersionInfoNotValid", "BZipped", "TimeStampInUTC",
      "IsUninstallerExe", "CallInstructionOptimized", "Touch", "ChunkEncrypted",
      "ChunkCompressed", "SolidBreak">>

Registered(f, v) ==
    CASE f = "BZipped" -> v >= INNO_VERSION(2, 0, 17) /\ v < INNO_VERSION(4, 0, 1)
      [] f = "TimeStampInUTC" -> v >= INNO_VERSION(4, 0, 10)
      [] f = "IsUninstallerExe" -> v >= INNO_VERSION(4, 1, 0)
      [] f = "CallInstructionOptimized" -> v >= INNO_VERSION(4, 1, 8)
      [] f = "Touch" -> v >= INNO_VERSION(4, 2, 0)
      [] f = "ChunkEncrypted" -> v >= INNO_VERSION(4, 2, 2)
      [] f = "ChunkCompressed" -> v >= INNO_VERSION(4, 2, 5)
      [] f = "SolidBreak" -> v >= INNO_VERSION(5, 1, 13)
      [] OTHER -> TRUE

\* the number of flags before the i-th that are registered at v
BitPosition(i, v) == Cardinality({ j \in 1..(i - 1) : Registered(FlagOrder[j], v) })

\* C9: a registered flag is in options iff the bit at its position, the
\* number of registered flags before it, is set in the stream; a flag that is
\* not registered is in options only if it is ChunkCompressed before 4.2.5.
C9_FlagPositions ==
    Loaded =>
        /\ de.options \subseteq { FlagOrder[i] : i \in 1..Len(FlagOrder) }
        /\ \A i \in 1..Len(FlagOrder) :
            LET f == FlagOrder[i] IN
            IF Registered(f, de_ver.v)
            THEN f \in de.options
                   <=> get_bits(de_src.flagword, BitPosition(i, de_ver.v),
                                BitPosition(i, de_ver.v)) = 1
            ELSE f \in de.options
                   <=> (f = "ChunkCompressed" /\ de_ver.v < INNO_VERSION(4, 2, 5))

\* At 4.0.10 TimeStampInUTC is the third registered flag, bit 2 of the stream.
C9_Witness ==
    /\ Loaded /\ de_ver.v = INNO_VERSION(4, 0, 10)
    /\ de_src.flagword = 4
    /\ de.options = {"TimeStampInUTC", "ChunkCompressed"}

\* C10: file.size and chunk.size are the stored 64-bit fields from 4.0.0 on
\* and the stored 32-bit fields, zero-extended, before; file.offset is the
\* stored 64-bit field from 4.0.1 on and 0, with no bytes of the stream used
\* for it, before.
C10_FieldWidths ==
    Loaded =>
        /\ de.chunk_offset = de_src.chunk_offset
        /\ IF de_ver.v >= INNO_VERSION(4, 0, 1)
           THEN de.file_offset = de_src.file_offset
           ELSE de.file_offset = Zero(4)
        /\ IF de_ver.v >= INNO_VERSION(4, 0, 0)
           THEN /\ de.file_size = de_src.file_size
                /\ de.chunk_size = de_src.chunk_size
           ELSE /\ de.file_size = <<de_src.file_size[1], de_src.file_size[2], 0, 0>>
                /\ de.chunk_size = <<de_src.chunk_size[1], de_src.chunk_size[2], 0, 0>>
        /\ de.file_version = de_src.version_ls \o de_src.version_ms

\* At exactly 4.0.0 the sizes are 64 bits wide and file.offset is absent.
C10_Witness ==
    /\ Loaded /\ de_ver.v = INNO_VERSION(4, 0, 0)
    /\ de.file_size = <<4369, 8738, 13107, 17476>>
    /\ de.chunk_size[4] = 32768
    /\ de.file_offset = Zero(4)

(***************************************************************************)
(* The resource locator: what sections 4.6 and 6 say of it.                *)
(***************************************************************************)
\* the end of a section as a mathematical integer (three limbs)
End3(s) == AddL(ZExt(s.virtual_address, 3), ZExt(s.virtual_size, 3))

\* S.virtual_address <= A < S.virtual_address + S.virtual_size
Covers(s, A) == ~LtL(A, s.virtual_address) /\ LtL(ZExt(A, 3), End3(s))

Covered(sections, A) == \E i \in 1..Len(sections) : Covers(sections[i], A)

NonOverlapping(sections) ==
    \A i, j \in 1..Len(sections) :
        i # j => \/ ~LtL(ZExt(sections[i].virtual_address, 3), End3(sections[j]))
                 \/ ~LtL(ZExt(sections[j].virtual_address, 3), End3(sections[i]))

\* A - S.virtual_address + S.raw_address as a mathematical integer for the
\* section S that covers A, and 0 when there is none
MathOffset(sections, A) ==
    IF Covered(sections, A)
    THEN LET s == sections[CHOOSE i \in 1..Len(sections) : Covers(sections[i], A)]
         IN  SubL(AddL(ZExt(A, 3), ZExt(s.raw_address, 3)), ZExt(s.virtual_address, 3))
    ELSE Zero(3)

\* C5: for non-overlapping sections and an RVA A, to_file_offset returns
\* A - S.virtual_address + S.raw_address for the section S with
\* S.virtual_address <= A < S.virtual_address + S.virtual_size, the sum taken
\* without wraparound, and 0 when no section satisfies it; here for the two
\* calls of find_resource, on the resource directory and on the leaf data.
C5_ToFileOffset ==
    [][ /\ (pe_pc = "resource_offset" /\ NonOverlapping(pe_loc.sections))
           => ZExt(pe_loc'.resource_offset, 3)
              = MathOffset(pe_loc.sections, pe_loc.coff.resource_table_address)
        /\ (pe_pc = "leaf" /\ ~pe_is'.fail /\ NonOverlapping(pe_loc.sections))
           => ZExt(pe_loc'.data_offset, 3)
              = MathOffset(pe_loc.sections, pe_loc'.data_address) ]_vars

\* no section of the image reaches past 2^32, in memory or in the file
InRange(sections) ==
    \A i \in 1..Len(sections) :
        /\ End3(sections[i])[3] = 0
        /\ AddL(ZExt(sections[i].raw_address, 3), ZExt(sections[i].virtual_size, 3))[3] = 0

\* the image is whole and the stream is good
Whole(p) == p.cut < 0 /\ ~p.failed

\* A well-formed image that holds the sought resource: the three ids are
\* among the id entries, levels 1 and 2 point to sub-directories, level 3 to
\* a leaf whose data RVA maps to a non-zero file offset.
WellFormed(p) ==
    /\ Whole(p)
    /\ p.sig = PE_MAGIC
    /\ ~LtL(p.ndirs, <<3, 0>>)
    /\ p.resRva # <<0, 0>> /\ p.resSize # <<0, 0>>
    /\ NonOverlapping(p.sections) /\ InRange(p.sections)
    /\ MathOffset(p.sections, p.resRva) # Zero(3)
    /\ p.present = <<TRUE, TRUE, TRUE>>
    /\ HighBit(p.entries[1]) /\ HighBit(p.entries[2])
    /\ ~HighBit(p.entries[3]) /\ p.entries[3] # <<0, 0>>
    /\ MathOffset(p.sections, p.leafRva) # Zero(3)

\* C6: on a well-formed image that holds the sought resource, whatever the
\* named entries and other id entries before the sought ones and whichever
\* the optional-header magic, find_resource returns the file offset of the
\* leaf's data RVA and the leaf's data size; named entries are not matched.
C6_FindsResource ==
    (pe_pc = "done" /\ WellFormed(pe_img))
    => /\ pe_result.offset = to_file_offset(pe_img.sections, pe_img.leafRva)
       /\ ZExt(pe_result.offset, 3) = MathOffset(pe_img.sections, pe_img.leafRva)
       /\ pe_result.size = pe_img.leafSize

C6_Witness ==
    /\ pe_pc = "done" /\ WellFormed(pe_img)
    /\ pe_img.optMagic = 523
    /\ pe_img.named = MaxNamed /\ pe_img.others = MaxOther
    /\ pe_img.sections = LayoutB
    /\ pe_result = [offset |-> <<1588, 0>>, size |-> <<4660, 22136>>]

\* C7: find_resource returns {0, 0} when the PE signature is wrong, the
\* data-directory count is below 3, the resource directory RVA or size is 0,
\* no section covers the resource directory RVA or no section covers the
\* leaf's data RVA; a non-zero size never comes with offset 0.
C7_FormatMismatch ==
    /\ pe_result.size # <<0, 0>> => pe_result.offset # <<0, 0>>
    /\ ( /\ pe_pc = "done"
         /\ \/ pe_img.sig # PE_MAGIC
            \/ LtL(pe_img.ndirs, <<3, 0>>)
            \/ pe_img.resRva = <<0, 0>>
            \/ pe_img.resSize = <<0, 0>>
            \/ ~Covered(pe_img.sections, pe_img.resRva)
            \/ ~Covered(pe_img.sections, pe_img.leafRva) )
       => pe_result = NotFound

C7_Witness ==
    /\ pe_pc = "done" /\ Whole(pe_img)
    /\ pe_img.ndirs = <<2, 0>>
    /\ pe_img.optMagic = 267
    /\ Covered(pe_img.sections, pe_img.leafRva)
    /\ pe_loc.sections = <<>>
    /\ pe_result = NotFound

\* C8: find_resource returns {0, 0} when the sought id is absent among the
\* id entries of a level, when the type or name entry has its high bit clear
\* and when the language entry has its high bit set; the leaf is read only
\* when levels 1 and 2 have the high bit set and level 3 is a non-zero entry
\* with the high bit clear.
C8_ThreeLevelWalk ==
    /\ ( /\ pe_pc = "done"
         /\ \/ \E k \in 1..3 : ~pe_img.present[k]
            \/ ~HighBit(pe_img.entries[1])
            \/ ~HighBit(pe_img.entries[2])
            \/ HighBit(pe_img.entries[3]) )
       => pe_result = NotFound
    /\ pe_pc = "leaf"
       => /\ pe_img.present = <<TRUE, TRUE, TRUE>>
          /\ HighBit(pe_img.entries[1]) /\ HighBit(pe_img.entries[2])
          /\ ~HighBit(pe_img.entries[3]) /\ pe_img.entries[3] # <<0, 0>>

C8_Witness ==
    /\ pe_pc = "done" /\ Whole(pe_img)
    /\ pe_img.present = <<TRUE, TRUE, TRUE>>
    /\ HighBit(pe_img.entries[3])
    /\ pe_loc.name_offset = FromInt(RootOff + 2 * DirSlot, 2)
    /\ pe_loc.leaf_offset = FromInt(RootOff + LeafRel, 2)
    /\ pe_result = NotFound

(***************************************************************************)
(* The data entry: checksum, filter, slices and compression.               *)
(***************************************************************************)
\* the bytes of the record before the checksum
BeforeChecksum(ver) ==
    (IF ver.bits = 16 THEN 4 ELSE 8) + 4
    + (IF ver.v >= INNO_VERSION(4, 0, 1) THEN 8 ELSE 0)
    + (IF ver.v >= INNO_VERSION(4, 0, 0) THEN 16 ELSE 8)

\* the width of the checksum the claim gives to a version
ChecksumWidth(v) ==
    IF v >= INNO_VERSION(5, 3, 9) THEN 20
    ELSE IF v >= INNO_VERSION(4, 2, 0) THEN 16
    ELSE 4

\* the tag the claim gives to a version
ChecksumTag(v) ==
    IF v >= INNO_VERSION(5, 3, 9) THEN "SHA1"
    ELSE IF v >= INNO_VERSION(4, 2, 0) THEN "MD5"
    ELSE IF v >= INNO_VERSION(4, 0, 1) THEN "CRC32"
    ELSE "Adler32"

\* the bytes a loaded checksum holds
ChecksumHeld(e) ==
    IF e.checksum_type \in {"SHA1", "MD5"} THEN e.checksum ELSE BytesOf(e.checksum)

\* C11: load sets the one checksum tag of the version, SHA1 from 5.3.9, MD5
\* from 4.2.0, CRC32 from 4.0.1 and Adler32 before, and reads exactly the
\* 20, 16, 4 or 4 bytes of that checksum: the checksum holds the stored
\* bytes and the fields after it are read from where it ends.
C11_ChecksumTag ==
    /\ de_pc = "loaded" => de.checksum_type = ChecksumTag(de_ver.v)
    /\ Loaded =>
        /\ ChecksumHeld(de) = [k \in 1..ChecksumWidth(de_ver.v) |-> 160 + k]
        /\ de.file_version = de_src.version_ls \o de_src.version_ms
        /\ de_is.pos = BeforeChecksum(de_ver) + ChecksumWidth(de_ver.v)
                       + (IF de_ver.bits = 16 THEN 4 ELSE 8) + 8
                       + FlagBytes(Len(FlagCatalog(de_ver.v)), de_ver.bits)

C11_Witness ==
    /\ Loaded /\ de_ver = [v |-> INNO_VERSION(4, 2, 0), bits |-> 32]
    /\ de.checksum_type = "MD5"
    /\ de.checksum = [k \in 1..16 |-> 160 + k]
    /\ de.file_version = <<4, 3, 2, 1>>

\* C12: after load the filter is InstructionFilter4108, 5200 or 5309 iff
\* CallInstructionOptimized is in the options and the version is below
\* 5.2.0, from 5.2.0 to below 5.3.9, or from 5.3.9 on, and NoFilter iff the
\* flag is not in the options; below 4.1.8 it is NoFilter for every stream.
C12_Filter ==
    de_pc = "loaded" =>
        LET cio == "CallInstructionOptimized" \in de.options
            v   == de_ver.v
        IN  /\ de.filter = "InstructionFilter4108" <=> (cio /\ v < INNO_VERSION(5, 2, 0))
            /\ de.filter = "InstructionFilter5200"
               <=> (cio /\ v >= INNO_VERSION(5, 2, 0) /\ v < INNO_VERSION(5, 3, 9))
            /\ de.filter = "InstructionFilter5309" <=> (cio /\ v >= INNO_VERSION(5, 3, 9))
            /\ de.filter = "NoFilter" <=> ~cio
            /\ v < INNO_VERSION(4, 1, 8) => de.filter = "NoFilter"

C12_Witness ==
    /\ Loaded /\ de_ver.v = INNO_VERSION(5, 3, 9)
    /\ de_src.flagword = 16
    /\ de.options = {"CallInstructionOptimized"}
    /\ de.filter = "InstructionFilter5309"

\* C13: before 4.0.0 both slice numbers are decremented iff both stored
\* values are at least 1; if either is 0 a warning is logged and both keep
\* their stored values, so neither wraps to 2^32 - 1; from 4.0.0 on both are
\* left as stored.
C13_Slices ==
    /\ de_pc = "loaded" =>
        /\ de.first_slice # <<65535, 65535>>
        /\ de.last_slice # <<65535, 65535>>
    /\ Loaded =>
        LET first == FromInt(de_src.first, 2)
            last  == FromInt(de_src.last, 2)
        IN  IF de_ver.v >= INNO_VERSION(4, 0, 0)
            THEN /\ de.first_slice = first /\ de.last_slice = last
                 /\ "slice" \notin de_warn
            ELSE IF de_src.first >= 1 /\ de_src.last >= 1
            THEN /\ de.first_slice = FromInt(de_src.first - 1, 2)
                 /\ de.last_slice = FromInt(de_src.last - 1, 2)
                 /\ "slice" \notin de_warn
            ELSE /\ de.first_slice = first /\ de.last_slice = last
                 /\ "slice" \in de_warn

C13_Witness ==
    /\ Loaded /\ de_ver.v = INNO_VERSION(3, 0, 0)
    /\ de_src.first = 3 /\ de_src.last = 0
    /\ de.first_slice = <<3, 0>> /\ de.last_slice = <<0, 0>>
    /\ "slice" \in de_warn

\* C14: after load the compression is Stored iff ChunkCompressed is not in
\* the options, BZip2 iff BZipped is in them (then ChunkCompressed is too)
\* and UnknownCompression otherwise; encrypted iff ChunkEncrypted is in the
\* options; never Stored below 4.2.5, never BZip2 below 2.0.17 or from
\* 4.0.1 on.
C14_Compression ==
    de_pc = "loaded" =>
        LET cc == "ChunkCompressed" \in de.options
            bz == "BZipped" \in de.options
            v  == de_ver.v
        IN  /\ de.compression = "Stored" <=> ~cc
            /\ de.compression = "BZip2" <=> bz
            /\ bz => cc
            /\ de.compression = "UnknownCompression" <=> (cc /\ ~bz)
            /\ de.encrypted <=> "ChunkEncrypted" \in de.options
            /\ v < INNO_VERSION(4, 2, 5) => de.compression # "Stored"
            /\ (v < INNO_VERSION(2, 0, 17) \/ v >= INNO_VERSION(4, 0, 1))
               => de.compression # "BZip2"

C14_Witness ==
    /\ Loaded /\ de_ver.v = INNO_VERSION(4, 0, 0)
    /\ de_src.flagword = 4
    /\ de.options = {"BZipped", "ChunkCompressed"}
    /\ de.compression = "BZip2"
    /\ ~de.encrypted

\* C15: once a read of find_resource falls short, at 0x3C, in the headers,
\* in the section table, in a directory level or in the leaf, or when the
\* stream has failed before the call, the failure flag stays set through the
\* later steps and find_resource returns {0, 0}; a truncated image is never
\* answered with a location.
C15_StickyFailure ==
    [][ /\ pe_is.fail => pe_is'.fail
        /\ (pe_pc' = "done" /\ pe_is'.fail) => pe_result' = NotFound
        /\ (pe_pc' = "done" /\ (pe_img.cut >= 0 \/ pe_img.failed))
           => (pe_is'.fail /\ pe_result' = NotFound) ]_vars

C15_Witness ==
    /\ pe_pc = "done"
    /\ pe_img.cut = RootOff + LeafRel + 6
    /\ pe_loc.leaf_offset = FromInt(RootOff + LeafRel, 2)
    /\ pe_is.fail
    /\ pe_result = NotFound

====
